---- MODULE Spec2Model ----
\* A model of the Ubuntu SSO OAuth identity provider (idp/usso/ussooauth) and
\* of the API operation resolver (internal/v1/auth.go).
\*
\* Strings the code scans are sequences of tokens.  A token is a run of
\* characters the code never splits:
\*   Authorization header:  KeyName is the text  oauth_consumer_key=
\*                          Quote   is the character  "
\*                          every other token is a run of characters that
\*                          holds no " and no part of oauth_consumer_key=
\*   response body:         "{" "}" "," are the JSON punctuation, WS is white
\*                          space, a member token is one  "key":value  pair
\*   request URL:           a path, "?", a raw query
EXTENDS Integers, Sequences, FiniteSets, TLC

VARIABLES
    pc,            \* position of Handle: idle, posting, reading, lookup, done
    req,           \* the login callback: [requestURL, Method, Authorization]
    reqCancelled,  \* the enclosing request's context has been cancelled
    cancelledInFlight, \* ... and it happened while the POST was in flight
    posts,         \* number of POSTs issued to the validator
    posted,        \* the payload of the POST
    postOutcome,   \* none, error, response: what http.Post returned
    contentType,   \* Content-Type of the validator's response
    bodyState,     \* none, open, closed: resp.Body
    bodyRead,      \* ioutil.ReadAll(resp.Body) has been called
    readErr,       \* the error ioutil.ReadAll returned (TRUE: non-nil)
    decoded,       \* json.Unmarshal succeeded on the data read
    validated,     \* the struct json.Unmarshal filled
    id,            \* the external identity verifyOAuthSignature returned
    lookups,       \* the arguments of the calls of FindUserByExternalId
    lookupResult,  \* what FindUserByExternalId returned: [user, err]
    successCalls,  \* the users handed to the login-success sink
    failureCalls,  \* the causes handed to the login-failure sink
    rCalls,        \* number of calls of opForRequest so far
    rReq,          \* the argument of the last call of opForRequest
    rOp,           \* the bakery.Op the last call returned
    rLog,          \* the log records the last call emitted
    uCalls,        \* number of calls of identityProvider.URL so far
    uCtx,          \* the idp.URLContext of the last call of URL: its location
    uWaitID,       \* the waitID argument of the last call of URL
    uCallback,     \* the string the last call of URL returned
    uErr,          \* the error the last call of URL returned
    att            \* the login attempts handled concurrently, by attempt

loginVars == <<pc, req, reqCancelled, cancelledInFlight, posts, posted,
               postOutcome, contentType, bodyState, bodyRead, readErr,
               decoded, validated, id, lookups, lookupResult, successCalls,
               failureCalls>>
resolverVars == <<rCalls, rReq, rOp, rLog>>
urlVars == <<uCalls, uCtx, uWaitID, uCallback, uErr>>
concVars == <<att>>
vars == <<loginVars, resolverVars, urlVars, concVars>>

-----------------------------------------------------------------------------
\* Bounds of the model.

\* An Authorization header is made of at most MaxParts parts.
MaxParts == 2
\* A JSON object in a response body has at most MaxMembers members.
MaxMembers == 2
\* opForRequest is called at most MaxCalls times in a behaviour.
MaxCalls == 2
\* A waitID is made of at most MaxWaitLen tokens.
MaxWaitLen == 2
\* identityProvider.URL is called at most MaxURLCalls times in a behaviour.
MaxURLCalls == 2
\* NumAttempts login attempts are handled side by side.
NumAttempts == 2

-----------------------------------------------------------------------------
\* Helpers on sequences.

Range(s) == { s[i] : i \in 1..Len(s) }

RECURSIVE Concat(_)
Concat(ss) == IF ss = <<>> THEN <<>> ELSE Head(ss) \o Concat(Tail(ss))

SeqsUpTo(S, n) == UNION { [1..k -> S] : k \in 0..n }

\* The index of the first element of s at or after i that equals t, 0 if none.
RECURSIVE IndexFrom(_, _, _)
IndexFrom(s, t, i) ==
    IF i > Len(s) THEN 0
    ELSE IF s[i] = t THEN i
    ELSE IndexFrom(s, t, i + 1)

-----------------------------------------------------------------------------
\* Errors.  An error value is [msg, arg, underlying]: the message, its
\* formatted argument (a token sequence) and the message of the error it
\* was built from ("" when there is none).

Err(msg, arg, underlying) == [msg |-> msg, arg |-> arg, underlying |-> underlying]
nil == Err("nil", <<>>, "")

\* errgo.Notef(err, msg, arg): a new error that keeps err as its underlying error.
Notef(err, msg, arg) == Err(msg, arg, err.msg)
\* errgo.Newf(msg, arg): a new error with no underlying error.
Newf(msg, arg) == Err(msg, arg, "")
\* errgo.Mask(err): an error with err's message and err as its underlying error.
Mask(err) == Err(err.msg, err.arg, err.msg)

-----------------------------------------------------------------------------
\* net/url: url.Parse, u.RawQuery = "", u.String().

BadEscape == "%zz"

RequestURLs == { <<"https://idm.example/oauth">>,
                 <<"https://idm.example/oauth", "?", "waitid", "=", "w1", "&",
                   "code", "=", "a%20b">>,
                 <<"https://idm.example/", BadEscape>> }

\* url.Parse: the path is everything before the first "?", the raw query
\* everything after it; an invalid escape in the path is an error, the raw
\* query is not unescaped.
urlParse(s) ==
    LET q    == IndexFrom(s, "?", 1)
        path == IF q = 0 THEN s ELSE SubSeq(s, 1, q - 1)
        raw  == IF q = 0 THEN <<>> ELSE SubSeq(s, q + 1, Len(s))
    IN  IF BadEscape \in Range(path)
        THEN [err |-> Err("invalid URL escape", <<BadEscape>>, ""),
              Path |-> <<>>, RawQuery |-> <<>>, ForceQuery |-> FALSE]
        ELSE [err |-> nil, Path |-> path, RawQuery |-> raw,
              ForceQuery |-> (q # 0 /\ raw = <<>>)]

\* u.String()
urlString(u) ==
    u.Path \o (IF u.ForceQuery \/ u.RawQuery # <<>> THEN <<"?">> \o u.RawQuery
               ELSE <<>>)

-----------------------------------------------------------------------------
\* net/url and net/http: url.ParseQuery, url.Values.Encode, Request.ParseForm.
\* A url.Values is a function from keys to sequences of values; keys and
\* values are token sequences.  The nil map and the empty map are both the
\* function with the empty domain.

noValues == <<>>

\* url.QueryUnescape and url.QueryEscape of one token: "%20" and "+" both
\* stand for a space, and a space is written "+".
QueryUnescape(t) == IF t \in { "a%20b", "a+b" } THEN "a b" ELSE t
QueryEscape(t) == IF t = "a b" THEN "a+b" ELSE t

unescape(ts) == [i \in DOMAIN ts |-> QueryUnescape(ts[i])]
escape(ts) == [i \in DOMAIN ts |-> QueryEscape(ts[i])]

\* The keys of the model's queries, in the order sort.Strings puts them.
KeyOrder == << <<"code">>, <<"waitid">> >>

\* url.ParseQuery: the query is cut at every "&" and each pair at its first
\* "="; an empty pair and a pair with an invalid escape are skipped (their
\* error is all that is returned for them); the values of a key keep their
\* order.
RECURSIVE parseQuery(_, _)
parseQuery(m, query) ==
    IF query = <<>> THEN m
    ELSE LET a    == IndexFrom(query, "&", 1)
             pair == IF a = 0 THEN query ELSE SubSeq(query, 1, a - 1)
             rest == IF a = 0 THEN <<>> ELSE SubSeq(query, a + 1, Len(query))
             e    == IndexFrom(pair, "=", 1)
             key  == unescape(IF e = 0 THEN pair ELSE SubSeq(pair, 1, e - 1))
             val  == unescape(IF e = 0 THEN <<>> ELSE SubSeq(pair, e + 1, Len(pair)))
         IN  IF pair = <<>> \/ BadEscape \in Range(pair)
             THEN parseQuery(m, rest)
             ELSE parseQuery([k \in DOMAIN m \cup { key } |->
                                IF k \in DOMAIN m THEN
                                    IF k = key THEN Append(m[k], val) ELSE m[k]
                                ELSE << val >>],
                             rest)

ParseQuery(query) == parseQuery(noValues, query)

\* url.Values.Encode: "key=value" for every value of every key, the keys in
\* sorted order, joined by "&", keys and values escaped.
RECURSIVE encodeValues(_, _, _, _)
encodeValues(k, vs, j, buf) ==
    IF j > Len(vs) THEN buf
    ELSE encodeValues(k, vs, j + 1,
                      (IF buf = <<>> THEN <<>> ELSE buf \o <<"&">>)
                      \o escape(k) \o <<"=">> \o escape(vs[j]))

RECURSIVE encodeKeys(_, _, _)
encodeKeys(v, i, buf) ==
    IF i > Len(KeyOrder) THEN buf
    ELSE encodeKeys(v, i + 1,
                    IF KeyOrder[i] \in DOMAIN v
                    THEN encodeValues(KeyOrder[i], v[KeyOrder[i]], 1, buf)
                    ELSE buf)

Encode(v) == encodeKeys(v, 1, <<>>)

\* (*http.Request).ParseForm of a request without a body: a Form that is
\* still unset is filled from the query of the request's own URL, a Form
\* that was filled already is kept; the error is returned and the caller
\* drops it.
ParseForm(r) ==
    IF r.Form = noValues
    THEN [r EXCEPT !.Form = ParseQuery(r.URL.RawQuery)]
    ELSE r

-----------------------------------------------------------------------------
\* The Authorization header and consumerKeyRegexp.

ussoURL == "https://login.ubuntu.com"

KeyName == "oauth_consumer_key="
Quote   == "\""

\* Consumer keys: runs of characters other than ".
Keys == { <<>>, <<"u123">>, <<"v456">> }

\* The parts a header is made of: a complete oauth_consumer_key="K"
\* parameter, one whose closing quote is missing, and other text.
HeaderParts ==
    { <<KeyName, Quote>> \o k \o <<Quote>> : k \in Keys }
    \cup { <<KeyName, Quote, "u123">>, <<"OAuth realm=">> }

Headers == { Concat(ps) : ps \in SeqsUpTo(HeaderParts, MaxParts) }

\* The leftmost match of  oauth_consumer_key="([^"]*)"  in h starting at or
\* after position i, as <<start, end>> (0, 0 when there is none): the literal
\* oauth_consumer_key=" , then every token up to the next quote.
RECURSIVE matchFrom(_, _)
matchFrom(h, i) ==
    IF i + 1 > Len(h) THEN <<0, 0>>
    ELSE IF h[i] = KeyName /\ h[i + 1] = Quote /\ IndexFrom(h, Quote, i + 2) # 0
         THEN <<i, IndexFrom(h, Quote, i + 2)>>
         ELSE matchFrom(h, i + 1)

\* consumerKeyRegexp.FindStringSubmatch(h): nil when nothing matches, else
\* the text of the leftmost match and the text of its group.
FindStringSubmatch(h) ==
    LET m == matchFrom(h, 1)
    IN  IF m[1] = 0 THEN <<>>
        ELSE << SubSeq(h, m[1], m[2]), SubSeq(h, m[1] + 2, m[2] - 1) >>

\* The number of successive non-overlapping matches of consumerKeyRegexp in
\* h at or after i (what FindAllStringSubmatch would count).
RECURSIVE countMatches(_, _)
countMatches(h, i) ==
    LET m == matchFrom(h, i)
    IN  IF m[1] = 0 THEN 0 ELSE 1 + countMatches(h, m[2] + 1)

NumMatches(h) == countMatches(h, 1)

\* The number of occurrences of oauth_consumer_key in h.
NumKeyNames(h) == Cardinality({ i \in 1..Len(h) : h[i] = KeyName })

-----------------------------------------------------------------------------
\* The validator's response: Content-Type and body.

\* Header values: a media type, then ";" and a parameter.
ContentTypes == { <<"application/json">>,
                  <<"application/json", ";", "charset=utf-8">>,
                  <<"Application/JSON">>,
                  <<"text/plain">>,
                  <<"application/json", ";", "=">>,
                  <<>> }

ToLower(s) == IF s = "Application/JSON" THEN "application/json" ELSE s

\* mime.ParseMediaType: the lower-cased media type before the first ";";
\* an empty value is an error and so is a parameter with no name.
ParseMediaType(v) ==
    IF v = <<>> THEN [err |-> Err("mime: no media type", <<>>, ""), t |-> ""]
    ELSE IF Len(v) >= 3 /\ v[3] = "="
         THEN [err |-> Err("mime: invalid media parameter", <<>>, ""), t |-> ""]
         ELSE [err |-> nil, t |-> ToLower(v[1])]

WS == " "
MemberValidTrue  == "is_valid:true"
MemberValidFalse == "is_valid:false"
MemberValidStr   == "is_valid:'yes'"
MemberErrorEmpty == "error:''"
MemberErrorSet   == "error:'denied'"
Members == { MemberValidTrue, MemberValidFalse, MemberValidStr,
             MemberErrorEmpty, MemberErrorSet }

\* The members of ms separated by commas.
RECURSIVE Join(_)
Join(ms) ==
    IF ms = <<>> THEN <<>>
    ELSE IF Len(ms) = 1 THEN ms
    ELSE <<Head(ms), ",">> \o Join(Tail(ms))

\* The bodies a validator may send: a JSON object (with or without trailing
\* white space), null, an HTML page, nothing.
Bodies ==
    { <<"{">> \o Join(ms) \o <<"}">> \o t :
        ms \in SeqsUpTo(Members, MaxMembers), t \in { <<>>, <<WS>> } }
    \cup { <<"null">>, <<"<html>">>, <<>> }

zeroValidated == [IsValid |-> FALSE, Error |-> ""]

\* json.Unmarshal decodes the members in order; a later one overwrites an
\* earlier one, a string for the bool field is recorded as a type error and
\* leaves the field alone.
RECURSIVE decodeMembers(_, _)
decodeMembers(ms, acc) ==
    IF ms = <<>> THEN acc
    ELSE LET m == Head(ms)
             next == IF m = MemberValidTrue THEN [acc EXCEPT !.v.IsValid = TRUE]
                     ELSE IF m = MemberValidFalse THEN [acc EXCEPT !.v.IsValid = FALSE]
                     ELSE IF m = MemberErrorEmpty THEN [acc EXCEPT !.v.Error = ""]
                     ELSE IF m = MemberErrorSet THEN [acc EXCEPT !.v.Error = "denied"]
                     ELSE IF acc.err = nil
                          THEN [acc EXCEPT !.err = Err("json: cannot unmarshal string into Go struct field of type bool", <<>>, "")]
                          ELSE acc
         IN  decodeMembers(Tail(ms), next)

\* json.Unmarshal(data, &validated): data must be one JSON value, white space
\* around tokens ignored; anything else (also no data at all) is a syntax
\* error that leaves validated untouched.
Unmarshal(data) ==
    LET notWS(t) == t # WS
        isMember(t) == t \in Members
        toks  == SelectSeq(data, notWS)
        n     == Len(toks)
        inner == IF n >= 2 THEN SubSeq(toks, 2, n - 1) ELSE <<>>
        object == /\ n >= 2
                  /\ toks[1] = "{"
                  /\ toks[n] = "}"
                  /\ \/ inner = <<>>
                     \/ /\ Len(inner) % 2 = 1
                        /\ \A k \in 1..Len(inner) :
                              IF k % 2 = 1 THEN inner[k] \in Members
                              ELSE inner[k] = ","
    IN  IF toks = <<"null">> THEN [err |-> nil, v |-> zeroValidated]
        ELSE IF object
             THEN decodeMembers(SelectSeq(inner, isMember),
                                [err |-> nil, v |-> zeroValidated])
             ELSE [err |-> Err("json: syntax error", <<>>, ""), v |-> zeroValidated]

-----------------------------------------------------------------------------
\* The collaborators of Handle (idp.Context, idputil) and the environment.

Methods == { "GET" }
Users == { "alice", "bob" }
LookupErrors == { Err("user not found", <<>>, ""),
                  Err("cannot query user store", <<>>, "") }
TransportErrors == { Err("dial tcp: connection refused", <<>>, "") }

\* c.LoginFailure(err): the login-failure sink records the cause.
LoginFailure(err) ==
    /\ failureCalls' = Append(failureCalls, err)
    /\ UNCHANGED successCalls

\* idputil.LoginUser(c, u): the login-completion collaborator reports the
\* login success of user u.
LoginUser(u) ==
    /\ successCalls' = Append(successCalls, u)
    /\ UNCHANGED failureCalls

-----------------------------------------------------------------------------
\* verifyOAuthSignature, between its blocking calls.

\* The JSON document POSTed to the validator.
validateRequest(u, r) ==
    [http_url |-> urlString(u), http_method |-> r.Method,
     authorization |-> r.Authorization, query_string |-> Encode(r.Form)]

\* checkContentType with the comparison to application/json left out: any
\* media type that parses is let through.
checkContentTypeAnyType(ct) ==
    LET p == ParseMediaType(ct)
    IN  IF p.err # nil THEN Newf("bad content type %q", ct) ELSE nil

\* The check of the response's Content-Type: the error returned, nil if none.
checkContentType(ct) ==
    LET p == ParseMediaType(ct)
    IN  IF p.err # nil THEN Newf("bad content type %q", ct)
        ELSE IF p.t # "application/json"
             THEN Newf("unexpected response type %q", <<p.t>>)
             ELSE nil

\* verifyBody with the test of validated.IsValid left out.
verifyBodyNoValidCheck(data, rerr, authorization) ==
    LET d == Unmarshal(data)
        consumerKey == FindStringSubmatch(authorization)
        fail(e) == [id |-> <<>>, err |-> e, decoded |-> (d.err = nil), validated |-> d.v]
    IN  IF d.err # nil THEN fail(Mask(d.err))
        ELSE IF d.v.Error # ""
             THEN fail(Newf("cannot validate OAuth credentials: %s", <<d.v.Error>>))
        ELSE IF Len(consumerKey) # 2
             THEN fail(Newf("no customer key in authorization", <<>>))
        ELSE [id |-> <<ussoURL, "/+id/">> \o consumerKey[2], err |-> nil,
              decoded |-> TRUE, validated |-> d.v]

\* verifyBody with the identity built from the whole match, consumerKey[0],
\* instead of the group.
verifyBodyWholeMatch(data, rerr, authorization) ==
    LET d == Unmarshal(data)
        consumerKey == FindStringSubmatch(authorization)
        fail(e) == [id |-> <<>>, err |-> e, decoded |-> (d.err = nil), validated |-> d.v]
    IN  IF d.err # nil THEN fail(Mask(d.err))
        ELSE IF d.v.Error # ""
             THEN fail(Newf("cannot validate OAuth credentials: %s", <<d.v.Error>>))
        ELSE IF ~d.v.IsValid THEN fail(Newf("invalid OAuth credentials", <<>>))
        ELSE IF Len(consumerKey) # 2
             THEN fail(Newf("no customer key in authorization", <<>>))
        ELSE [id |-> <<ussoURL, "/+id/">> \o consumerKey[1], err |-> nil,
              decoded |-> TRUE, validated |-> d.v]

\* What follows ioutil.ReadAll: data and rerr are what ReadAll returned.
\* rerr is assigned and never looked at.  The result is the (id, err) pair
\* verifyOAuthSignature returns, with the struct that was decoded.
verifyBody(data, rerr, authorization) ==
    LET d == Unmarshal(data)
        consumerKey == FindStringSubmatch(authorization)
        fail(e) == [id |-> <<>>, err |-> e, decoded |-> (d.err = nil), validated |-> d.v]
    IN  IF d.err # nil THEN fail(Mask(d.err))
        ELSE IF d.v.Error # ""
             THEN fail(Newf("cannot validate OAuth credentials: %s", <<d.v.Error>>))
        ELSE IF ~d.v.IsValid THEN fail(Newf("invalid OAuth credentials", <<>>))
        ELSE IF Len(consumerKey) # 2
             THEN fail(Newf("no customer key in authorization", <<>>))
        ELSE [id |-> <<ussoURL, "/+id/">> \o consumerKey[2], err |-> nil,
              decoded |-> TRUE, validated |-> d.v]

-----------------------------------------------------------------------------
\* Handle.

\* HandleVerified with the return after c.LoginFailure(err) left out: the
\* failure is reported and Handle goes on to the user store.
HandleVerifiedNoReturn(vid, err) ==
    /\ lookups' = Append(lookups, vid)
    /\ pc' = "lookup"
    /\ IF err # nil THEN LoginFailure(err)
       ELSE UNCHANGED <<successCalls, failureCalls>>

\* Handle once verifyOAuthSignature has returned (vid, err): a failure is
\* reported and Handle returns, otherwise the user store is asked for vid.
HandleVerified(vid, err) ==
    IF err # nil
    THEN /\ LoginFailure(err)
         /\ pc' = "done"
         /\ UNCHANGED lookups
    ELSE /\ lookups' = Append(lookups, vid)
         /\ pc' = "lookup"
         /\ UNCHANGED <<successCalls, failureCalls>>

\* Handle is called: the request's form is parsed, the request URL is
\* parsed, its query is dropped and the validation request is POSTed.
\* json.Marshal of a struct of four strings returns no error.
HandleStart ==
    /\ pc = "idle"
    /\ req' = ParseForm(req)
    /\ LET u == urlParse(req.requestURL)
       IN  IF u.err # nil
           THEN /\ HandleVerified(<<>>, Notef(u.err, "cannot parse request URL", <<>>))
                /\ UNCHANGED <<posts, posted>>
           ELSE /\ posts' = posts + 1
                /\ posted' = validateRequest([u EXCEPT !.RawQuery = <<>>],
                                             ParseForm(req))
                /\ pc' = "posting"
                /\ UNCHANGED <<lookups, successCalls, failureCalls>>
    /\ UNCHANGED <<reqCancelled, cancelledInFlight, postOutcome, contentType,
                   bodyState, bodyRead, readErr, decoded, validated, id,
                   lookupResult>>
    /\ UNCHANGED <<resolverVars, urlVars, concVars>>

\* PostFails with a retry: after a failed POST the validation request is
\* POSTed once more before the failure is reported.
PostFailsRetry ==
    /\ pc = "posting"
    /\ \E e \in TransportErrors :
          IF posts < 2
          THEN /\ posts' = posts + 1
               /\ UNCHANGED <<pc, postOutcome, lookups, successCalls, failureCalls>>
          ELSE /\ postOutcome' = "error"
               /\ HandleVerified(<<>>, Mask(e))
               /\ UNCHANGED posts
    /\ UNCHANGED <<req, reqCancelled, cancelledInFlight, posted, contentType,
                   bodyState, bodyRead, readErr, decoded, validated, id,
                   lookupResult>>
    /\ UNCHANGED <<resolverVars, urlVars, concVars>>

\* http.Post returns an error: no response, nothing to close.
PostFails ==
    /\ pc = "posting"
    /\ \E e \in TransportErrors :
          /\ postOutcome' = "error"
          /\ HandleVerified(<<>>, Mask(e))
    /\ UNCHANGED <<req, reqCancelled, cancelledInFlight, posts, posted, contentType,
                   bodyState, bodyRead, readErr, decoded, validated, id,
                   lookupResult>>
    /\ UNCHANGED <<resolverVars, urlVars, concVars>>

\* PostResponds with the Close deferred only after the content type check:
\* a response of an unexpected type is left open.
PostRespondsLateClose ==
    /\ pc = "posting"
    /\ \E ct \in ContentTypes :
          /\ postOutcome' = "response"
          /\ contentType' = ct
          /\ IF checkContentType(ct) # nil
             THEN /\ HandleVerified(<<>>, checkContentType(ct))
                  /\ bodyState' = "open"
                  /\ UNCHANGED bodyRead
             ELSE /\ pc' = "reading"
                  /\ bodyState' = "open"
                  /\ bodyRead' = TRUE
                  /\ UNCHANGED <<lookups, successCalls, failureCalls>>
    /\ UNCHANGED <<req, reqCancelled, cancelledInFlight, posts, posted,
                   readErr, decoded, validated, id, lookupResult>>
    /\ UNCHANGED <<resolverVars, urlVars, concVars>>

\* http.Post returns a response with Content-Type ct: the body is open and
\* its Close deferred; the content type is checked, then ReadAll is called.
PostResponds ==
    /\ pc = "posting"
    /\ \E ct \in ContentTypes :
          /\ postOutcome' = "response"
          /\ contentType' = ct
          /\ IF checkContentType(ct) # nil
             THEN /\ HandleVerified(<<>>, checkContentType(ct))
                  /\ bodyState' = "closed"
                  /\ UNCHANGED bodyRead
             ELSE /\ pc' = "reading"
                  /\ bodyState' = "open"
                  /\ bodyRead' = TRUE
                  /\ UNCHANGED <<lookups, successCalls, failureCalls>>
    /\ UNCHANGED <<req, reqCancelled, cancelledInFlight, posts, posted,
                   readErr, decoded, validated, id, lookupResult>>
    /\ UNCHANGED <<resolverVars, urlVars, concVars>>

\* ioutil.ReadAll returns: all of the body and no error, or what had arrived
\* (any prefix of the body, the whole of it too) and an error.  The rest of
\* verifyOAuthSignature runs and the deferred Close closes the body.
ReadAllReturns ==
    /\ pc = "reading"
    /\ \E body \in Bodies, rerr \in BOOLEAN :
       \E n \in 0..Len(body) :
          /\ ~rerr => n = Len(body)
          /\ LET r == verifyBody(SubSeq(body, 1, n), rerr, req.Authorization)
             IN  /\ readErr' = rerr
                 /\ decoded' = r.decoded
                 /\ validated' = r.validated
                 /\ id' = r.id
                 /\ HandleVerified(r.id, r.err)
    /\ bodyState' = "closed"
    /\ UNCHANGED <<req, reqCancelled, cancelledInFlight, posts, posted, postOutcome,
                   contentType, bodyRead, lookupResult>>
    /\ UNCHANGED <<resolverVars, urlVars, concVars>>

\* LookupReturns with the lookup error swallowed: the failure reported does
\* not carry the error the user store returned.
LookupReturnsSwallow ==
    /\ pc = "lookup"
    /\ \/ \E e \in LookupErrors :
             /\ lookupResult' = [user |-> "", err |-> e]
             /\ LoginFailure(Newf("cannot get user details for %q",
                                  lookups[Len(lookups)]))
       \/ \E u \in Users :
             /\ lookupResult' = [user |-> u, err |-> nil]
             /\ LoginUser(u)
    /\ pc' = "done"
    /\ UNCHANGED <<req, reqCancelled, cancelledInFlight, posts, posted, postOutcome,
                   contentType, bodyState, bodyRead, readErr, decoded, validated,
                   id, lookups>>
    /\ UNCHANGED <<resolverVars, urlVars, concVars>>

\* c.FindUserByExternalId(id) returns: an error is reported as a login
\* failure that wraps it, a user is logged in.
LookupReturns ==
    /\ pc = "lookup"
    /\ \/ \E e \in LookupErrors :
             /\ lookupResult' = [user |-> "", err |-> e]
             /\ LoginFailure(Notef(e, "cannot get user details for %q",
                                   lookups[Len(lookups)]))
       \/ \E u \in Users :
             /\ lookupResult' = [user |-> u, err |-> nil]
             /\ LoginUser(u)
    /\ pc' = "done"
    /\ UNCHANGED <<req, reqCancelled, cancelledInFlight, posts, posted, postOutcome,
                   contentType, bodyState, bodyRead, readErr, decoded, validated,
                   id, lookups>>
    /\ UNCHANGED <<resolverVars, urlVars, concVars>>

\* The enclosing login request is cancelled (its client went away) while
\* Handle runs.  Nothing in Handle looks at the request's context.
Cancel ==
    /\ pc \in { "posting", "reading", "lookup" }
    /\ ~reqCancelled
    /\ reqCancelled' = TRUE
    /\ cancelledInFlight' = (pc = "posting")
    /\ UNCHANGED <<pc, req, posts, posted, postOutcome, contentType, bodyState,
                   bodyRead, readErr, decoded, validated, id, lookups,
                   lookupResult, successCalls, failureCalls>>
    /\ UNCHANGED <<resolverVars, urlVars, concVars>>

-----------------------------------------------------------------------------
\* The specification of one login attempt.

\* The inbound callback as Handle receives it: c.RequestURL() is the URL of
\* the request c.Params().Request, so the query of the request's own URL is
\* the query of requestURL; the request's form has not been parsed yet.
request(s, m, h) ==
    LET q == IndexFrom(s, "?", 1)
    IN  [requestURL |-> s,
         URL |-> [RawQuery |-> IF q = 0 THEN <<>> ELSE SubSeq(s, q + 1, Len(s))],
         Method |-> m, Authorization |-> h, Form |-> noValues]

Requests == { request(s, m, h) : s \in RequestURLs, m \in Methods, h \in Headers }

InitLogin ==
    /\ pc = "idle"
    /\ reqCancelled = FALSE
    /\ cancelledInFlight = FALSE
    /\ posts = 0
    /\ posted = [http_url |-> <<>>, http_method |-> "", authorization |-> <<>>,
                 query_string |-> <<>>]
    /\ postOutcome = "none"
    /\ contentType = <<>>
    /\ bodyState = "none"
    /\ bodyRead = FALSE
    /\ readErr = FALSE
    /\ decoded = FALSE
    /\ validated = zeroValidated
    /\ id = <<>>
    /\ lookups = <<>>
    /\ lookupResult = [user |-> "", err |-> nil]
    /\ successCalls = <<>>
    /\ failureCalls = <<>>

InitResolver ==
    /\ rCalls = 0
    /\ rReq = [type |-> "", Username |-> "", Owner |-> ""]
    /\ rOp = [Entity |-> "", Action |-> ""]
    /\ rLog = <<>>

\* identityProvider.URL has not been called.
InitURL ==
    /\ uCalls = 0
    /\ uCtx = <<>>
    /\ uWaitID = <<>>
    /\ uCallback = <<>>
    /\ uErr = nil

\* No login attempts are handled side by side.
InitNoAttempts == att = <<>>

Init ==
    /\ req \in Requests
    /\ InitLogin
    /\ InitResolver
    /\ InitURL
    /\ InitNoAttempts

Next ==
    \/ HandleStart
    \/ PostFails
    \/ PostResponds
    \/ ReadAllReturns
    \/ LookupReturns
    \/ Cancel

Spec == Init /\ [][Next]_vars

-----------------------------------------------------------------------------
\* The operation resolver: opForRequest.

\* The actions of package auth and the operations built from them.
ActionRead         == "read"
ActionVerify       == "verify"
ActionDischargeFor == "dischargeFor"
ActionCreateAgent  == "createAgent"
ActionReadAdmin    == "readAdmin"
ActionWriteAdmin   == "writeAdmin"
ActionReadGroups   == "readGroups"
ActionWriteGroups  == "writeGroups"
ActionReadSSHKeys  == "readSSHKeys"
ActionWriteSSHKeys == "writeSSHKeys"

\* auth.GlobalOp(action): the operation on the global entity.
GlobalOp(action) == [Entity |-> "global", Action |-> action]
\* auth.UserOp(u, action): the operation on the entity of user u.
UserOp(u, action) == [Entity |-> u, Action |-> action]
\* identchecker.LoginOp: the distinguished login operation.
LoginOp == [Entity |-> "login", Action |-> "login"]
\* bakery.Op{}: the zero operation.
zeroOp == [Entity |-> "", Action |-> ""]

\* The request types opForRequest has a case for.
KnownTypes ==
    { "QueryUsersRequest", "UserRequest", "SetUserRequest", "UserGroupsRequest",
      "SetUserGroupsRequest", "ModifyUserGroupsRequest", "UserIDPGroupsRequest",
      "WhoAmIRequest", "SSHKeysRequest", "PutSSHKeysRequest",
      "DeleteSSHKeysRequest", "UserTokenRequest", "VerifyTokenRequest",
      "UserExtraInfoRequest", "SetUserExtraInfoRequest",
      "UserExtraInfoItemRequest", "SetUserExtraInfoItemRequest",
      "DischargeTokenForUserRequest" }
\* Arguments of other types: the nil interface, a request type with no case,
\* a value that is no request.
UnknownTypes == { "nil", "GetUserWithIDRequest", "string" }

Usernames == { "", "alice", "bob" }

\* The arguments of opForRequest: a non-nil pointer to a request of the
\* given type (for the types that have the fields, Username and Owner are
\* the request's fields).
APIRequests == [type : KnownTypes \cup UnknownTypes,
                Username : Usernames, Owner : Usernames]

\* opForSetUser with the agent-creation scoped to the target, not the owner.
opForSetUserTarget(r) ==
    IF r.Owner # "" THEN UserOp(r.Username, ActionCreateAgent)
    ELSE UserOp(r.Username, ActionWriteAdmin)

\* The case of a SetUserRequest.
opForSetUser(r) ==
    IF r.Owner # "" THEN UserOp(r.Owner, ActionCreateAgent)
    ELSE UserOp(r.Username, ActionWriteAdmin)

\* opForUnknown with a permissive default: the global read operation.
opForUnknownRead(r) == GlobalOp(ActionRead)

\* The default case: what is returned after the log record is written.
opForUnknown(r) == zeroOp

\* opForRequest with the case of the requests of type t changed to return op.
opForRequestBut(r, t, op) ==
    IF r.type = t THEN op
    ELSE
    CASE r.type = "QueryUsersRequest" -> GlobalOp(ActionRead)
      [] r.type = "UserRequest" -> UserOp(r.Username, ActionRead)
      [] r.type = "SetUserRequest" -> opForSetUser(r)
      [] r.type = "UserGroupsRequest" -> UserOp(r.Username, ActionReadGroups)
      [] r.type = "SetUserGroupsRequest" -> UserOp(r.Username, ActionWriteGroups)
      [] r.type = "ModifyUserGroupsRequest" -> UserOp(r.Username, ActionWriteGroups)
      [] r.type = "UserIDPGroupsRequest" -> UserOp(r.Username, ActionReadGroups)
      [] r.type = "WhoAmIRequest" -> LoginOp
      [] r.type = "SSHKeysRequest" -> UserOp(r.Username, ActionReadSSHKeys)
      [] r.type = "PutSSHKeysRequest" -> UserOp(r.Username, ActionWriteSSHKeys)
      [] r.type = "DeleteSSHKeysRequest" -> UserOp(r.Username, ActionWriteSSHKeys)
      [] r.type = "UserTokenRequest" -> UserOp(r.Username, ActionReadAdmin)
      [] r.type = "VerifyTokenRequest" -> GlobalOp(ActionVerify)
      [] r.type = "UserExtraInfoRequest" -> UserOp(r.Username, ActionReadAdmin)
      [] r.type = "SetUserExtraInfoRequest" -> UserOp(r.Username, ActionWriteAdmin)
      [] r.type = "UserExtraInfoItemRequest" -> UserOp(r.Username, ActionReadAdmin)
      [] r.type = "SetUserExtraInfoItemRequest" -> UserOp(r.Username, ActionWriteAdmin)
      [] r.type = "DischargeTokenForUserRequest" -> GlobalOp(ActionDischargeFor)
      [] OTHER -> opForUnknown(r)

\* opForRequest with the case of SetUserGroupsRequest copied from the case
\* of UserGroupsRequest: a mutating request that asks for a read action.
opForRequestGroupsSlip(r) ==
    opForRequestBut(r, "SetUserGroupsRequest", UserOp(r.Username, ActionReadGroups))

\* opForRequest with a WhoAmIRequest treated as a read of the user.
opForRequestWhoAmIRead(r) ==
    opForRequestBut(r, "WhoAmIRequest", UserOp(r.Username, ActionRead))

opForRequest(r) ==
    CASE r.type = "QueryUsersRequest" -> GlobalOp(ActionRead)
      [] r.type = "UserRequest" -> UserOp(r.Username, ActionRead)
      [] r.type = "SetUserRequest" -> opForSetUser(r)
      [] r.type = "UserGroupsRequest" -> UserOp(r.Username, ActionReadGroups)
      [] r.type = "SetUserGroupsRequest" -> UserOp(r.Username, ActionWriteGroups)
      [] r.type = "ModifyUserGroupsRequest" -> UserOp(r.Username, ActionWriteGroups)
      [] r.type = "UserIDPGroupsRequest" -> UserOp(r.Username, ActionReadGroups)
      [] r.type = "WhoAmIRequest" -> LoginOp
      [] r.type = "SSHKeysRequest" -> UserOp(r.Username, ActionReadSSHKeys)
      [] r.type = "PutSSHKeysRequest" -> UserOp(r.Username, ActionWriteSSHKeys)
      [] r.type = "DeleteSSHKeysRequest" -> UserOp(r.Username, ActionWriteSSHKeys)
      [] r.type = "UserTokenRequest" -> UserOp(r.Username, ActionReadAdmin)
      [] r.type = "VerifyTokenRequest" -> GlobalOp(ActionVerify)
      [] r.type = "UserExtraInfoRequest" -> UserOp(r.Username, ActionReadAdmin)
      [] r.type = "SetUserExtraInfoRequest" -> UserOp(r.Username, ActionWriteAdmin)
      [] r.type = "UserExtraInfoItemRequest" -> UserOp(r.Username, ActionReadAdmin)
      [] r.type = "SetUserExtraInfoItemRequest" -> UserOp(r.Username, ActionWriteAdmin)
      [] r.type = "DischargeTokenForUserRequest" -> GlobalOp(ActionDischargeFor)
      [] OTHER -> opForUnknown(r)

\* The records opForRequest hands to logger.Infof: one, in the default case.
opForRequestLog(r) ==
    IF r.type \in KnownTypes THEN <<>>
    ELSE << [msg |-> "unknown API argument type %#v", arg |-> r] >>

\* The API handler calls opForRequest on a request.
Resolve ==
    /\ rCalls < MaxCalls
    /\ \E r \in APIRequests :
          /\ rReq' = r
          /\ rOp' = opForRequest(r)
          /\ rLog' = opForRequestLog(r)
    /\ rCalls' = rCalls + 1
    /\ UNCHANGED <<loginVars, urlVars, concVars>>

InitR ==
    /\ req = request(<<"https://idm.example/oauth">>, "GET", <<>>)
    /\ InitLogin
    /\ InitResolver
    /\ InitURL
    /\ InitNoAttempts

NextR == Resolve

SpecResolver == InitR /\ [][NextR]_vars

-----------------------------------------------------------------------------
\* identityProvider.URL.

\* The locations an idp.URLContext may stand for: the prefix its URL method
\* puts before a path.
URLContexts == { <<>>,
                 <<"https://idm.example">>,
                 <<"https://idm.example", "/v1/idp/usso_oauth">>,
                 <<"https://idm.example", "/login">>,
                 <<"http://localhost:8081">>,
                 <<"http://localhost:8081", "/v1/idp/usso_oauth">> }

\* The tokens a waitID is made of; "" is the empty sequence.
WaitIDTokens == { "w1", "a2", "&", "%" }
WaitIDs == SeqsUpTo(WaitIDTokens, MaxWaitLen)

\* c.URL(path): the URL of path at the context's location.
cURL(c, path) == c \o <<path>>

\* URL with the waitID dropped: the callback URL alone is returned.
URLNoWaitID(c, waitID) == [callback |-> cURL(c, "/oauth"), err |-> nil]

\* identityProvider.URL(c, waitID): the (string, error) pair returned.
URL(c, waitID) ==
    LET callback == cURL(c, "/oauth")
    IN  [callback |-> IF waitID # <<>> THEN callback \o <<"?waitid=">> \o waitID
                      ELSE callback,
         err |-> nil]

\* The login URL of the provider is asked for.
CallURL ==
    /\ uCalls < MaxURLCalls
    /\ \E c \in URLContexts, w \in WaitIDs :
          /\ uCtx' = c
          /\ uWaitID' = w
          /\ uCallback' = URL(c, w).callback
          /\ uErr' = URL(c, w).err
    /\ uCalls' = uCalls + 1
    /\ UNCHANGED <<loginVars, resolverVars, concVars>>

InitU ==
    /\ req = request(<<"https://idm.example/oauth">>, "GET", <<>>)
    /\ InitLogin
    /\ InitResolver
    /\ InitURL
    /\ InitNoAttempts

NextU == CallURL

SpecURL == InitU /\ [][NextU]_vars

-----------------------------------------------------------------------------
\* Login attempts handled side by side.  identityProvider is an empty struct
\* and verifyOAuthSignature keeps what it works on in local variables, so
\* all the state of an attempt is the attempt's own: att[a] holds, for
\* attempt a, the position of Handle, the request, what http.Post, ReadAll
\* and FindUserByExternalId returned to it, the identity verified and what
\* was handed to the two sinks.

Attempts == 1..NumAttempts

header(k) == <<KeyName, Quote>> \o k \o <<Quote>>

AttemptRequests ==
    { request(<<"https://idm.example/oauth", "?", "waitid", "=", "w1">>, "GET", h) :
         h \in { <<>>, header(<<"u123">>), header(<<"v456">>) } }
    \cup { request(<<"https://idm.example/", BadEscape>>, "GET", header(<<"u123">>)) }

\* What http.Post may return to an attempt: an error, or a response with a
\* Content-Type.
AttemptPosts ==
    { [err |-> e, ct |-> <<>>] : e \in TransportErrors }
    \cup { [err |-> nil, ct |-> ct] : ct \in { <<"application/json">>, <<"text/plain">> } }

\* What ReadAll may return to an attempt: the data and the error.
AttemptReads ==
    { [data |-> <<"{", MemberValidTrue, "}">>, rerr |-> FALSE],
      [data |-> <<"{", MemberValidFalse, "}">>, rerr |-> FALSE],
      [data |-> <<"{">>, rerr |-> TRUE] }

\* What FindUserByExternalId may return to an attempt.
AttemptLookups ==
    { [user |-> u, err |-> nil] : u \in Users }
    \cup { [user |-> "", err |-> Err("user not found", <<>>, "")] }

\* Handle is about to be called with request r.
newAttempt(r) ==
    [pc |-> "idle", req |-> r, post |-> [err |-> nil, ct |-> <<>>],
     data |-> <<>>, rerr |-> FALSE, lres |-> [user |-> "", err |-> nil],
     id |-> <<>>, success |-> <<>>, failure |-> <<>>]

\* Handle of an attempt in state st once its verifyOAuthSignature has
\* returned (vid, err).
verifiedOf(st, vid, err) ==
    IF err # nil
    THEN [st EXCEPT !.pc = "done", !.failure = Append(@, err)]
    ELSE [st EXCEPT !.pc = "lookup", !.id = vid]

\* Handle is called for attempt a.
HandleStartOf(a) ==
    /\ att[a].pc = "idle"
    /\ LET u == urlParse(att[a].req.requestURL)
       IN  att' = [att EXCEPT ![a] =
                     IF u.err # nil
                     THEN verifiedOf([@ EXCEPT !.req = ParseForm(@)], <<>>,
                                     Notef(u.err, "cannot parse request URL", <<>>))
                     ELSE [@ EXCEPT !.req = ParseForm(@), !.pc = "posting"]]
    /\ UNCHANGED <<loginVars, resolverVars, urlVars>>

\* http.Post returns to attempt a.
PostReturnsOf(a) ==
    /\ att[a].pc = "posting"
    /\ \E p \in AttemptPosts :
          att' = [att EXCEPT ![a] =
                    IF p.err # nil
                    THEN verifiedOf([@ EXCEPT !.post = p], <<>>, Mask(p.err))
                    ELSE IF checkContentType(p.ct) # nil
                    THEN verifiedOf([@ EXCEPT !.post = p], <<>>, checkContentType(p.ct))
                    ELSE [@ EXCEPT !.post = p, !.pc = "reading"]]
    /\ UNCHANGED <<loginVars, resolverVars, urlVars>>

\* ioutil.ReadAll returns to attempt a.
ReadAllReturnsOf(a) ==
    /\ att[a].pc = "reading"
    /\ \E d \in AttemptReads :
          LET r == verifyBody(d.data, d.rerr, att[a].req.Authorization)
          IN  att' = [att EXCEPT ![a] =
                        verifiedOf([@ EXCEPT !.data = d.data, !.rerr = d.rerr],
                                   r.id, r.err)]
    /\ UNCHANGED <<loginVars, resolverVars, urlVars>>

\* LookupReturnsOf with the identity kept in a field of the provider, which
\* all attempts share, instead of a local variable: the failure reported
\* names the identity another attempt has verified.
LookupReturnsOfShared(a) ==
    /\ att[a].pc = "lookup"
    /\ \E l \in AttemptLookups :
          LET others == { b \in Attempts : b # a /\ att[b].id # <<>> }
              shared == IF others = {} THEN att[a].id
                        ELSE att[CHOOSE b \in others : TRUE].id
          IN  att' = [att EXCEPT ![a] =
                        IF l.err # nil
                        THEN [@ EXCEPT !.lres = l, !.pc = "done",
                                       !.failure = Append(@, Notef(l.err,
                                           "cannot get user details for %q", shared))]
                        ELSE [@ EXCEPT !.lres = l, !.pc = "done",
                                       !.success = Append(@, l.user)]]
    /\ UNCHANGED <<loginVars, resolverVars, urlVars>>

\* c.FindUserByExternalId returns to attempt a.
LookupReturnsOf(a) ==
    /\ att[a].pc = "lookup"
    /\ \E l \in AttemptLookups :
          att' = [att EXCEPT ![a] =
                    IF l.err # nil
                    THEN [@ EXCEPT !.lres = l, !.pc = "done",
                                   !.failure = Append(@, Notef(l.err,
                                       "cannot get user details for %q", att[a].id))]
                    ELSE [@ EXCEPT !.lres = l, !.pc = "done",
                                   !.success = Append(@, l.user)]]
    /\ UNCHANGED <<loginVars, resolverVars, urlVars>>

InitC ==
    /\ req = request(<<"https://idm.example/oauth">>, "GET", <<>>)
    /\ InitLogin
    /\ InitResolver
    /\ InitURL
    /\ att \in [Attempts -> { newAttempt(r) : r \in AttemptRequests }]

NextC ==
    \E a \in Attempts :
        \/ HandleStartOf(a)
        \/ PostReturnsOf(a)
        \/ ReadAllReturnsOf(a)
        \/ LookupReturnsOf(a)

SpecConcurrent == InitC /\ [][NextC]_vars

-----------------------------------------------------------------------------
\* The claims.

\* The steps of Handle (every action but the environment's Cancel).
HandleStep ==
    HandleStart \/ PostFails \/ PostResponds \/ ReadAllReturns \/ LookupReturns

sinkCalls == Len(successCalls) + Len(failureCalls)

\* C1: a login attempt invokes the login-success sink or the login-failure
\* sink at most once altogether; it has invoked exactly one of them, once,
\* exactly when Handle has returned; and until then Handle can always take
\* its next step, whatever the validator and the user store answer.
C1_ExactlyOneSink ==
    /\ sinkCalls <= 1
    /\ (pc = "done") <=> (sinkCalls = 1)
    /\ pc # "done" => ENABLED HandleStep

C1_Witness ==
    /\ pc = "done"
    /\ Len(successCalls) = 1
    /\ failureCalls = <<>>

\* verifyOAuthSignature got as far as decoding the validator's answer, and
\* the answer accepts the request: is_valid true, error empty.
accepted ==
    /\ pc \in { "lookup", "done" }
    /\ decoded
    /\ validated.IsValid
    /\ validated.Error = ""

malformedCredential == Newf("no customer key in authorization", <<>>)

\* h[i..j] is a match of oauth_consumer_key="([^"]*)": the key name, a
\* quote, tokens that are no quote, a quote.
IsMatch(h, i, j) ==
    /\ i + 2 <= j
    /\ j <= Len(h)
    /\ h[i] = KeyName
    /\ h[i + 1] = Quote
    /\ h[j] = Quote
    /\ \A k \in (i + 2)..(j - 1) : h[k] # Quote

HasMatch(h) == \E i, j \in 1..Len(h) : IsMatch(h, i, j)

\* C2 as claimed: once the validator has accepted the request, a header with
\* no match, and one with two or more occurrences of oauth_consumer_key,
\* fails verification with the malformed-credential cause and yields no
\* identity; verification succeeds only with exactly one match.
C2_ExactlyOneMatchRequired ==
    accepted =>
        /\ (NumMatches(req.Authorization) = 0 \/ NumKeyNames(req.Authorization) >= 2)
              => (id = <<>> /\ failureCalls = <<malformedCredential>>)
        /\ id # <<>> => NumMatches(req.Authorization) = 1

\* The case in which the code departs from C2: the validator accepted a
\* request whose header holds two matches with different keys, verification
\* succeeded with the identity of the first one, and that identity was
\* looked up.
C2_Witness ==
    /\ accepted
    /\ req.Authorization = <<KeyName, Quote, "u123", Quote,
                             KeyName, Quote, "v456", Quote>>
    /\ id = <<ussoURL, "/+id/", "u123">>
    /\ lookups = << id >>
    /\ failureCalls # <<malformedCredential>>

\* The validator's answer did not arrive whole and well-formed: http.Post
\* failed, ReadAll returned an error, or the data read did not decode.
transportOrParsingFailure ==
    \/ postOutcome = "error"
    \/ /\ bodyRead
       /\ pc \in { "lookup", "done" }
       /\ (readErr \/ ~decoded)

\* C3 as claimed: a failed POST, a failure while reading the response body
\* and a body that does not decode each end the attempt in a login failure:
\* the user store is not asked and the success sink is not invoked.
C3_TransportFailuresFail ==
    transportOrParsingFailure =>
        /\ pc = "done"
        /\ id = <<>>
        /\ lookups = <<>>
        /\ successCalls = <<>>
        /\ Len(failureCalls) = 1

\* C4 as claimed: when the enclosing request is cancelled while the POST to
\* the validator is in flight, the POST is cancelled too: it does not go on
\* to deliver the validator's response to Handle.
C4_ValidationCancelledWithRequest ==
    cancelledInFlight => postOutcome # "response"

\* C5: opForRequest on a SetUserRequest returns the CreateAgent operation on
\* the entity of Owner when Owner is not empty, whatever Username is, and
\* the WriteAdmin operation on the entity of Username when Owner is empty.
C5_SetUserOperation ==
    (rCalls > 0 /\ rReq.type = "SetUserRequest") =>
        IF rReq.Owner # ""
        THEN rOp = [Entity |-> rReq.Owner, Action |-> ActionCreateAgent]
        ELSE rOp = [Entity |-> rReq.Username, Action |-> ActionWriteAdmin]

C5_Witness ==
    /\ rCalls > 0
    /\ rReq = [type |-> "SetUserRequest", Username |-> "bob", Owner |-> "alice"]
    /\ rOp = [Entity |-> "alice", Action |-> ActionCreateAgent]

\* Every action an operation may carry.
AllActions ==
    { ActionRead, ActionVerify, ActionDischargeFor, ActionCreateAgent,
      ActionReadAdmin, ActionWriteAdmin, ActionReadGroups, ActionWriteGroups,
      ActionReadSSHKeys, ActionWriteSSHKeys, "login" }

\* C6: every call of opForRequest returns an operation, and for an argument
\* of a type it has no case for (the nil interface too) it returns the zero
\* operation, empty Entity and empty Action, and emits one log record
\* about the argument.
C6_UnknownResolvesToZeroOp ==
    rCalls > 0 =>
        /\ rOp \in [Entity : Usernames \cup { "global", "login" },
                    Action : AllActions \cup { "" }]
        /\ rReq.type \notin KnownTypes =>
              /\ rOp = zeroOp
              /\ rLog = << [msg |-> "unknown API argument type %#v", arg |-> rReq] >>

C6_Witness ==
    /\ rCalls > 0
    /\ rReq.type = "GetUserWithIDRequest"
    /\ rOp = zeroOp
    /\ Len(rLog) = 1

\* C7: when the answer decoded from the validator has is_valid false, or an
\* error that is not empty whatever is_valid is, verification fails: Handle
\* returns with no identity, the user store not asked, the success sink not
\* invoked and one login failure reported, whose cause is the generic
\* invalid-credentials cause when the error is empty and the cause with the
\* validator's error when it is not.
C7_RejectionFails ==
    (pc \in { "lookup", "done" } /\ decoded
        /\ (~validated.IsValid \/ validated.Error # "")) =>
        /\ pc = "done"
        /\ id = <<>>
        /\ lookups = <<>>
        /\ successCalls = <<>>
        /\ failureCalls =
              << IF validated.Error # ""
                 THEN Newf("cannot validate OAuth credentials: %s", <<validated.Error>>)
                 ELSE Newf("invalid OAuth credentials", <<>>) >>

C7_Witness ==
    /\ pc = "done"
    /\ decoded
    /\ validated = [IsValid |-> FALSE, Error |-> ""]
    /\ failureCalls = << Newf("invalid OAuth credentials", <<>>) >>

\* The Content-Type of the response is not the expected one: it does not
\* parse, or its media type is not application/json.
unexpectedContentType ==
    /\ postOutcome = "response"
    /\ \/ ParseMediaType(contentType).err # nil
       \/ ParseMediaType(contentType).t # "application/json"

\* C8: when the Content-Type of the validator's response does not parse or
\* is not application/json, verification fails and the response body is
\* never read nor decoded, whatever it holds: Handle has returned with a
\* login failure and ReadAll was not called.
C8_ContentTypeBeforeBody ==
    unexpectedContentType =>
        /\ ~bodyRead
        /\ ~decoded
        /\ pc = "done"
        /\ lookups = <<>>
        /\ successCalls = <<>>
        /\ Len(failureCalls) = 1

C8_Witness ==
    /\ contentType = <<"text/plain">>
    /\ postOutcome = "response"
    /\ pc = "done"
    /\ failureCalls = << Newf("unexpected response type %q", <<"text/plain">>) >>

\* C9: a login attempt POSTs to the validator at most once, and a POST that
\* failed has been reported as a login failure by the step that saw it
\* fail: Handle has returned, nothing was retried.
C9_SingleRoundTrip ==
    /\ posts <= 1
    /\ postOutcome = "error" =>
          /\ posts = 1
          /\ pc = "done"
          /\ successCalls = <<>>
          /\ Len(failureCalls) = 1

C9_Witness ==
    /\ postOutcome = "error"
    /\ posts = 1
    /\ pc = "done"

\* C10: when verification succeeded and the lookup of the identity in the
\* user store fails, the attempt ends with the success sink not invoked and
\* one login failure whose cause names the identity and wraps the error the
\* lookup returned.
C10_LookupFailureWrapped ==
    lookupResult.err # nil =>
        /\ pc = "done"
        /\ id # <<>>
        /\ successCalls = <<>>
        /\ failureCalls =
              << Err("cannot get user details for %q", id, lookupResult.err.msg) >>

C10_Witness ==
    /\ lookupResult.err = Err("user not found", <<>>, "")
    /\ id = <<ussoURL, "/+id/", "u123">>
    /\ Len(failureCalls) = 1
    /\ failureCalls[1].underlying = "user not found"

\* C11: the validator's response body is released on every exit path of
\* verification: once verifyOAuthSignature has returned after a response
\* (success, unexpected content type, read or parse failure, rejection,
\* malformed credential) the body is closed; it is open only while the body
\* is being read; and when http.Post failed there is no body at all.
C11_BodyReleased ==
    /\ postOutcome \in { "none", "error" } => bodyState = "none"
    /\ (postOutcome = "response" /\ pc \in { "lookup", "done" })
          => bodyState = "closed"
    /\ bodyState = "open" => pc = "reading"

C11_Witness ==
    /\ pc = "done"
    /\ failureCalls = <<malformedCredential>>
    /\ bodyState = "closed"

\* C12: when the answer decoded from the validator has is_valid true and an
\* empty error and the Authorization header holds one match
\* oauth_consumer_key="K", verification succeeds, the identity handed to the
\* user store is the validator's namespace, "/+id/" and K, and when the
\* lookup returns a user the login is completed with that user and no
\* failure is reported.
C12_IdentityFromConsumerKey ==
    \A i, j \in 1..Len(req.Authorization) :
        (/\ accepted
         /\ IsMatch(req.Authorization, i, j)
         /\ \A i2, j2 \in 1..Len(req.Authorization) :
               IsMatch(req.Authorization, i2, j2) => (i2 = i /\ j2 = j)) =>
            /\ id = <<ussoURL, "/+id/">> \o SubSeq(req.Authorization, i + 2, j - 1)
            /\ lookups = <<id>>
            /\ lookupResult.user # "" =>
                  /\ pc = "done"
                  /\ successCalls = <<lookupResult.user>>
                  /\ failureCalls = <<>>

C12_Witness ==
    /\ req.Authorization = <<KeyName, Quote, "u123", Quote>>
    /\ validated = [IsValid |-> TRUE, Error |-> ""]
    /\ lookups = << <<ussoURL, "/+id/", "u123">> >>
    /\ lookupResult.user = "alice"
    /\ successCalls = <<"alice">>

\* The mapping table of the operation resolver: the action of each request
\* type whose operation is on the global entity, and of each whose
\* operation is on the entity of the request's Username.
GlobalTable ==
    [t \in { "QueryUsersRequest", "VerifyTokenRequest",
             "DischargeTokenForUserRequest" } |->
        CASE t = "QueryUsersRequest" -> "read"
          [] t = "VerifyTokenRequest" -> "verify"
          [] t = "DischargeTokenForUserRequest" -> "dischargeFor"]

UserTable ==
    [t \in { "UserRequest", "UserGroupsRequest", "UserIDPGroupsRequest",
             "SetUserGroupsRequest", "ModifyUserGroupsRequest",
             "SSHKeysRequest", "PutSSHKeysRequest", "DeleteSSHKeysRequest",
             "UserTokenRequest", "UserExtraInfoRequest",
             "UserExtraInfoItemRequest", "SetUserExtraInfoRequest",
             "SetUserExtraInfoItemRequest" } |->
        CASE t = "UserRequest" -> "read"
          [] t \in { "UserGroupsRequest", "UserIDPGroupsRequest" } -> "readGroups"
          [] t \in { "SetUserGroupsRequest", "ModifyUserGroupsRequest" } -> "writeGroups"
          [] t = "SSHKeysRequest" -> "readSSHKeys"
          [] t \in { "PutSSHKeysRequest", "DeleteSSHKeysRequest" } -> "writeSSHKeys"
          [] t \in { "UserTokenRequest", "UserExtraInfoRequest",
                     "UserExtraInfoItemRequest" } -> "readAdmin"
          [] t \in { "SetUserExtraInfoRequest",
                     "SetUserExtraInfoItemRequest" } -> "writeAdmin"]

MutatingTypes ==
    { "SetUserRequest", "SetUserGroupsRequest", "ModifyUserGroupsRequest",
      "PutSSHKeysRequest", "DeleteSSHKeysRequest", "SetUserExtraInfoRequest",
      "SetUserExtraInfoItemRequest" }
ReadActions == { "read", "readGroups", "readSSHKeys", "readAdmin" }

\* C13: for every request type of the mapping table opForRequest returns
\* the operation of the table: the table's action on the global entity for
\* QueryUsers, VerifyToken and DischargeTokenForUser, the table's action on
\* the entity of the request's own Username for the user-scoped requests;
\* and no mutating request resolves to a read action.
C13_MappingTable ==
    rCalls > 0 =>
        /\ rReq.type \in DOMAIN GlobalTable =>
              rOp = [Entity |-> "global", Action |-> GlobalTable[rReq.type]]
        /\ rReq.type \in DOMAIN UserTable =>
              rOp = [Entity |-> rReq.Username, Action |-> UserTable[rReq.type]]
        /\ rReq.type \in MutatingTypes => rOp.Action \notin ReadActions

C13_Witness ==
    /\ rCalls > 0
    /\ rReq = [type |-> "SetUserGroupsRequest", Username |-> "bob", Owner |-> ""]
    /\ rOp = [Entity |-> "bob", Action |-> "writeGroups"]

\* C14: opForRequest on a WhoAmIRequest returns the login operation,
\* whatever the request's fields hold, and so no operation on the global
\* entity or on a user's entity and no resource action.
C14_WhoAmIIsLogin ==
    (rCalls > 0 /\ rReq.type = "WhoAmIRequest") =>
        /\ rOp = [Entity |-> "login", Action |-> "login"]
        /\ rOp.Entity \notin Usernames \cup { "global" }
        /\ rOp.Action \notin AllActions \ { "login" }

C14_Witness ==
    /\ rCalls > 0
    /\ rReq = [type |-> "WhoAmIRequest", Username |-> "bob", Owner |-> "alice"]
    /\ rOp = LoginOp

\* C15: identityProvider.URL returns the callback URL of the context, the
\* context's URL of /oauth; with a waitID that is not empty the returned
\* string is that URL with ?waitid= and the waitID appended as they are,
\* with an empty waitID it is that URL and nothing more; and the error
\* returned is always nil.
C15_LoginURL ==
    uCalls > 0 =>
        /\ uErr = nil
        /\ SubSeq(uCallback, 1, Len(uCtx) + 1) = uCtx \o <<"/oauth">>
        /\ uWaitID = <<>> => Len(uCallback) = Len(uCtx) + 1
        /\ uWaitID # <<>> =>
              /\ Len(uCallback) = Len(uCtx) + 2 + Len(uWaitID)
              /\ uCallback[Len(uCtx) + 2] = "?waitid="
              /\ SubSeq(uCallback, Len(uCtx) + 3, Len(uCallback)) = uWaitID

C15_Witness ==
    /\ uCalls > 0
    /\ uCtx = <<"https://idm.example", "/v1/idp/usso_oauth">>
    /\ uWaitID = <<"w1">>
    /\ uCallback = <<"https://idm.example", "/v1/idp/usso_oauth", "/oauth",
                     "?waitid=", "w1">>

\* What Handle reports for a request on its own, given what http.Post,
\* ReadAll and FindUserByExternalId return to it: the calls of the success
\* sink and of the failure sink.
OwnOutcome(r, post, data, rerr, lres) ==
    LET failed(e) == [success |-> <<>>, failure |-> <<e>>]
        u == urlParse(r.requestURL)
        v == verifyBody(data, rerr, r.Authorization)
    IN  IF u.err # nil THEN failed(Notef(u.err, "cannot parse request URL", <<>>))
        ELSE IF post.err # nil THEN failed(Mask(post.err))
        ELSE IF checkContentType(post.ct) # nil THEN failed(checkContentType(post.ct))
        ELSE IF v.err # nil THEN failed(v.err)
        ELSE IF lres.err # nil
             THEN failed(Notef(lres.err, "cannot get user details for %q", v.id))
        ELSE [success |-> <<lres.user>>, failure |-> <<>>]

\* C16: when login attempts are handled side by side, in any interleaving
\* of their steps, an attempt reports nothing before it ends, and what it
\* has reported when it ends (success with which user, or failure with
\* which cause) is what Handle reports for that attempt's own request,
\* validator response and lookup result, whatever the other attempts do.
C16_AttemptsIndependent ==
    \A a \in Attempts :
        IF att[a].pc = "done"
        THEN [success |-> att[a].success, failure |-> att[a].failure]
                = OwnOutcome(att[a].req, att[a].post, att[a].data,
                             att[a].rerr, att[a].lres)
        ELSE att[a].success = <<>> /\ att[a].failure = <<>>

\* Two attempts that verified different identities while both were in
\* flight: one has failed at the user store, the other is still waiting
\* for it.
C16_Witness ==
    /\ att[1].pc = "done"
    /\ att[1].id = <<ussoURL, "/+id/", "u123">>
    /\ att[1].lres.err # nil
    /\ Len(att[1].failure) = 1
    /\ att[2].pc = "lookup"
    /\ att[2].id = <<ussoURL, "/+id/", "v456">>

\* Verification has fully succeeded for this attempt's request: the
\* validation request built from it was POSTed once, the validator answered
\* with the expected content type, the body was read and decoded, the
\* answer has is_valid true and an empty error, and the Authorization
\* header holds a consumer key.
fullyVerified ==
    /\ posts = 1
    /\ posted.authorization = req.Authorization
    /\ posted.http_method = req.Method
    /\ postOutcome = "response"
    /\ ParseMediaType(contentType).err = nil
    /\ ParseMediaType(contentType).t = "application/json"
    /\ bodyRead
    /\ decoded
    /\ validated.IsValid
    /\ validated.Error = ""
    /\ HasMatch(req.Authorization)
    /\ id # <<>>

\* C18: the user store is asked only after verification has fully
\* succeeded, and only for the identity verified; the login is completed
\* only after that lookup has returned a user, and with that user; and an
\* attempt whose verification failed never asks the user store.
C18_LookupAfterVerification ==
    /\ lookups # <<>> => (fullyVerified /\ lookups = <<id>>)
    /\ successCalls # <<>> =>
          /\ fullyVerified
          /\ lookups = <<id>>
          /\ lookupResult.err = nil
          /\ lookupResult.user # ""
          /\ successCalls = <<lookupResult.user>>
    /\ (pc = "done" /\ ~fullyVerified) =>
          /\ lookups = <<>>
          /\ lookupResult = [user |-> "", err |-> nil]
          /\ successCalls = <<>>

\* An attempt that ended in a login success.
C18_Witness ==
    /\ pc = "done"
    /\ fullyVerified
    /\ lookups = <<id>>
    /\ successCalls = <<"bob">>

====
